---- MODULE Spec2Model ----
(***************************************************************************)
(* Model of gapper's ResultSynthesizer (src/src/gapper/core/               *)
(* result_synthesizer.py) over TestResult records                          *)
(* (src/src/gap/core/test_result.py).                                      *)
(*                                                                         *)
(* Optional values (Python's `x | None`) are sequences of length <= 1:     *)
(* None is << >> and a set value v is <<v>>.                               *)
(*                                                                         *)
(* Scores are Python floats.  They are modelled as binary fixed-point      *)
(* numbers: an integer n stands for n / Unit, Unit = 2^FracBits.  Sums,    *)
(* differences and products with an integer weight are exact; the one      *)
(* division of the program rounds to the nearest representable value,      *)
(* ties to even, as IEEE-754 division does.                                *)
(***************************************************************************)
EXTENDS Integers, Sequences, FiniteSets, TLC

VARIABLES
    results,      \* ResultSynthesizer._results: sequence of TestResult
    metadata,     \* ResultSynthesizer._metadata: None or <<total_points>>
    total_score,  \* ResultSynthesizer._total_score: None or <<value>>
    outcome,      \* how the last synthesize_score call ended ("idle": none yet)
    rule,         \* the raise statement that ended the last call ("none": it returned)
    ret,          \* value returned by the last call, None if it raised
    before,       \* results as they were when the last call started
    calls,        \* number of synthesize_score calls made
    pre_tests,    \* the declared pre-test hooks, in declaration order
    battery,      \* the number of declared test cases
    post_tests,   \* ResultSynthesizer._post_tests, in declaration order
    phase,        \* position of the run: PRE_HOOKS, BATTERY, POST_HOOKS, DONE, ABORTED
    unit,         \* index of the next unit (hook or test) of the current phase
    body_pc,      \* position inside the post test being run: idle, draining, returned
    gen_left,     \* items the running lazy hook body has still to yield
    result_proxy, \* run_post_tests' result_proxy: None or <<TestResult>>
    addition_test_results,  \* run_post_tests' local list
    hook_log,     \* hook invocations so far: start, end and raise events
    rec,          \* one TestResult object under its own operations
    last,         \* the last operation applied to rec, and rec before it
    recs,         \* a sequence of TestResult objects under has_valid_score
    checks,       \* the has_valid_score calls made so far, with their outcomes
    is_building,        \* TesterConfig._is_building
    injection_config,   \* TesterConfig._injection_config (the name of a config)
    cfg_last,           \* the last TesterConfig operation and how it ended
    timers,             \* the Repeat timers started so far: "running" or "cancelled"
    upload_info_timer,  \* AutograderUpload.upload_info_timer: None or <<index in timers>>
    pending_uploads,    \* uploads handlers waiting in upload_autograder
    docker_status,      \* what get_docker_build_status reports
    workers,            \* refresh_upload_info workers started and not yet run
    gui_log             \* what has happened on the screen so far

synthvars == <<results, metadata, total_score, outcome, rule, ret, before, calls>>
hookvars == <<pre_tests, battery, post_tests, phase, unit, body_pc, gen_left,
              result_proxy, addition_test_results, hook_log>>
recvars == <<rec, last>>
validvars == <<recs, checks>>
cfgvars == <<is_building, injection_config, cfg_last>>
guivars == <<timers, upload_info_timer, pending_uploads, docker_status, workers,
             gui_log>>
auxvars == <<validvars, cfgvars, guivars>>
vars == <<synthvars, hookvars, recvars, auxvars>>

----------------------------------------------------------------------------
(* Bounds of the model *)

MaxResults == 2
MaxPool == 3
MaxCalls == 1
MaxRepeats == 1
FracBits == 2
MaxPre == 2
MaxBattery == 2
MaxPost == 2
MaxYields == 2
MaxOps == 3
MaxValid == 2
MaxChecks == 4
MaxConfigOps == 5
MaxPresses == 2
MaxTicks == 3

Unit == 2 ^ FracBits

----------------------------------------------------------------------------
(* Optional values *)

None == << >>
Some(v) == <<v>>
Val(x) == x[1]

----------------------------------------------------------------------------
(* TestResult: the scoring fields and the pass status *)

TestResult(score, max_score, weight, extra_points, pass_status) ==
    [score |-> score, max_score |-> max_score, weight |-> weight,
     extra_points |-> extra_points, pass_status |-> pass_status]

\* The dataclass constructor: every field but default_name at its default.
NewTestResult(default_name) ==
    [default_name |-> default_name, name |-> None, score |-> None,
     max_score |-> None, weight |-> None, extra_points |-> None,
     errors |-> << >>, pass_status |-> "passed", hidden |-> FALSE,
     descriptions |-> << >>]

----------------------------------------------------------------------------
(* TestResult operations (test_result.py lines 54-78) *)

SetName(r, name) == [r EXCEPT !.name = Some(name)]

AddDescription(r, detail) == [r EXCEPT !.descriptions = Append(@, detail)]

SetDescription(r, detail) == [r EXCEPT !.descriptions = detail]

SetHidden(r, hidden) == [r EXCEPT !.hidden = hidden]

SetScore(r, score) == [r EXCEPT !.score = Some(score)]

SetExtraScore(r, score) == [r EXCEPT !.extra_points = Some(score)]

SetStatus(r, status) == [r EXCEPT !.pass_status = status]

\* Variant that puts the new error in front of the others.
AddErrorInFront(r, error, set_failed) ==
    LET r1 == [r EXCEPT !.errors = <<error>> \o @] IN
    IF set_failed THEN SetStatus(r1, "failed") ELSE r1

AddError(r, error, set_failed) ==
    LET r1 == [r EXCEPT !.errors = Append(@, error)] IN
    IF set_failed THEN SetStatus(r1, "failed") ELSE r1

----------------------------------------------------------------------------
(* ResultSynthesizer.total_score (property) *)

\* Variant that prefers the explicitly supplied total over the metadata.
TotalScorePreferringExplicit(meta, ts) ==
    IF meta = None /\ ts = None
    THEN [raised |-> "ValueError", value |-> None]
    ELSE IF ts # None
         THEN [raised |-> "none", value |-> ts]
         ELSE [raised |-> "none", value |-> meta]

TotalScore(meta, ts) ==
    IF meta = None /\ ts = None
    THEN [raised |-> "ValueError", value |-> None]
    ELSE IF meta # None
         THEN [raised |-> "none", value |-> meta]
         ELSE [raised |-> "none", value |-> ts]

----------------------------------------------------------------------------
(* Float division: the quotient a / b rounded to the nearest multiple of   *)
(* 1 / Unit, ties to even.  a is in units, b is a nonzero integer.         *)

RoundDiv(a, b) ==
    LET n == IF b < 0 THEN -a ELSE a
        d == IF b < 0 THEN -b ELSE b
        q == n \div d
        r == n % d
    IN  IF 2 * r < d THEN q
        ELSE IF 2 * r > d THEN q + 1
        ELSE IF q % 2 = 0 THEN q ELSE q + 1

----------------------------------------------------------------------------
(* synthesize_score, first loop (lines 112-133): validate and partition *)

\* Variant without the both-set check of lines 118-121.
ClassifyWithoutBothSetCheck(res) ==
    IF res.max_score = None /\ res.weight = None THEN "both_none"
    ELSE IF res.max_score # None THEN "with_score"
    ELSE "with_weight"

Classify(res) ==
    IF res.max_score = None /\ res.weight = None THEN "both_none"
    ELSE IF res.max_score # None /\ res.weight # None THEN "both_set"
    ELSE IF res.max_score # None THEN "with_score"
    ELSE IF res.weight # None THEN "with_weight"
    ELSE "both_none_named"

\* Variant that lets a record with only score set through the first loop.
RECURSIVE PartitionSkippingPrescored(_, _, _)
PartitionSkippingPrescored(rs, i, acc) ==
    IF i > Len(rs) THEN acc
    ELSE IF rs[i].max_score = None /\ rs[i].weight = None /\ rs[i].score # None
    THEN PartitionSkippingPrescored(rs, i + 1, acc)
    ELSE IF rs[i].max_score = None /\ rs[i].weight = None
    THEN [acc EXCEPT !.raised = "InternalError", !.rule = "both_none"]
    ELSE IF rs[i].max_score # None /\ rs[i].weight # None
    THEN [acc EXCEPT !.raised = "InternalError", !.rule = "both_set"]
    ELSE IF rs[i].max_score # None
    THEN PartitionSkippingPrescored(rs, i + 1,
             [acc EXCEPT !.results_with_score = Append(@, i),
                         !.max_score_sum = @ + Val(rs[i].max_score)])
    ELSE PartitionSkippingPrescored(rs, i + 1,
             [acc EXCEPT !.results_with_weight = Append(@, i),
                         !.weight_sum = @ + Val(rs[i].weight)])

RECURSIVE Partition(_, _, _)
Partition(rs, i, acc) ==
    IF i > Len(rs) THEN acc
    ELSE LET kind == Classify(rs[i]) IN
         IF kind = "with_score"
         THEN Partition(rs, i + 1,
                  [acc EXCEPT !.results_with_score = Append(@, i),
                              !.max_score_sum = @ + Val(rs[i].max_score)])
         ELSE IF kind = "with_weight"
         THEN Partition(rs, i + 1,
                  [acc EXCEPT !.results_with_weight = Append(@, i),
                              !.weight_sum = @ + Val(rs[i].weight)])
         ELSE [acc EXCEPT !.raised = "InternalError", !.rule = kind]

PartitionStart ==
    [raised |-> "none", rule |-> "none",
     results_with_score |-> << >>, results_with_weight |-> << >>,
     max_score_sum |-> 0, weight_sum |-> 0]

----------------------------------------------------------------------------
(* lines 135-141: the budget check and the remaining score *)

\* Variants of the budget check: >= for >, and no check at all.
OverBudgetInclusive(max_score_sum, total) == max_score_sum >= total

OverBudgetUnchecked(max_score_sum, total) == FALSE

OverBudget(max_score_sum, total) == max_score_sum > total

\* Variant that does not subtract the fixed scores.
RemainingScoreOfTotal(total, max_score_sum) == total

RemainingScore(total, max_score_sum) == total - max_score_sum

----------------------------------------------------------------------------
(* lines 143-146: allocate the remaining score to the weighted records *)

\* Variant with floor division (// for /).
AllocatedShareTruncating(weight, remaining_score, weight_sum) ==
    IF weight_sum < 0
    THEN (-(weight * remaining_score)) \div (-weight_sum)
    ELSE (weight * remaining_score) \div weight_sum

AllocatedShare(weight, remaining_score, weight_sum) ==
    RoundDiv(weight * remaining_score, weight_sum)

\* Variant that keeps the weight of an allocated record.
RECURSIVE AllocateKeepingWeight(_, _, _, _, _)
AllocateKeepingWeight(rs, idxs, k, remaining_score, weight_sum) ==
    IF k > Len(idxs) THEN [raised |-> "none", results |-> rs]
    ELSE IF weight_sum = 0
         THEN [raised |-> "ZeroDivisionError", results |-> rs]
         ELSE LET i == idxs[k]
                  share == AllocatedShare(Val(rs[i].weight), remaining_score, weight_sum)
              IN  AllocateKeepingWeight([rs EXCEPT ![i].max_score = Some(share)],
                                        idxs, k + 1, remaining_score, weight_sum)

RECURSIVE Allocate(_, _, _, _, _)
Allocate(rs, idxs, k, remaining_score, weight_sum) ==
    IF k > Len(idxs) THEN [raised |-> "none", results |-> rs]
    ELSE IF weight_sum = 0
         THEN [raised |-> "ZeroDivisionError", results |-> rs]
         ELSE LET i == idxs[k]
                  share == AllocatedShare(Val(rs[i].weight), remaining_score, weight_sum)
              IN  Allocate([rs EXCEPT ![i].max_score = Some(share),
                                      ![i].weight = None],
                           idxs, k + 1, remaining_score, weight_sum)

----------------------------------------------------------------------------
(* lines 148-170: resolve every record's score *)

\* Variant that gives a record its points whatever its pass status.
ResolvedScoreIgnoringStatus(res) ==
    IF res.extra_points = None THEN Val(res.max_score)
    ELSE Val(res.extra_points)

\* Variant that adds the extra points to max_score.
ResolvedScoreAddingExtra(res) ==
    IF res.pass_status = "passed"
    THEN IF res.extra_points = None THEN Val(res.max_score)
         ELSE Val(res.max_score) + Val(res.extra_points)
    ELSE 0

ResolvedScore(res) ==
    IF res.pass_status = "passed"
    THEN IF res.extra_points = None THEN Val(res.max_score) + 0
         ELSE Val(res.extra_points)
    ELSE 0

\* Variant that resolves the score of every record, pre-set or not.
ResolveRecordOverwriting(res) ==
    [raised |-> "none", rule |-> "none",
     res |-> [res EXCEPT !.score = Some(ResolvedScore(res))]]

\* Variant without the extra-points check of lines 155-158.
ResolveRecordWithoutExtraCheck(res) ==
    IF res.score # None
    THEN IF Val(res.score) < 0
         THEN [raised |-> "InternalError", rule |-> "negative_score", res |-> res]
         ELSE [raised |-> "none", rule |-> "none", res |-> res]
    ELSE [raised |-> "none", rule |-> "none",
          res |-> [res EXCEPT !.score = Some(ResolvedScore(res))]]

\* Variant that checks the extra points before the sign of the score.
ResolveRecordExtraFirst(res) ==
    IF res.score # None
    THEN IF res.extra_points # None
         THEN [raised |-> "InternalError", rule |-> "score_and_extra", res |-> res]
         ELSE IF Val(res.score) < 0
              THEN [raised |-> "InternalError", rule |-> "negative_score", res |-> res]
              ELSE [raised |-> "none", rule |-> "none", res |-> res]
    ELSE [raised |-> "none", rule |-> "none",
          res |-> [res EXCEPT !.score = Some(ResolvedScore(res))]]

ResolveRecord(res) ==
    IF res.score # None
    THEN IF Val(res.score) < 0
         THEN [raised |-> "InternalError", rule |-> "negative_score", res |-> res]
         ELSE IF res.extra_points # None
              THEN [raised |-> "InternalError", rule |-> "score_and_extra", res |-> res]
              ELSE [raised |-> "none", rule |-> "none", res |-> res]
    ELSE [raised |-> "none", rule |-> "none",
          res |-> [res EXCEPT !.score = Some(ResolvedScore(res))]]

RECURSIVE Resolve(_, _)
Resolve(rs, i) ==
    IF i > Len(rs) THEN [raised |-> "none", rule |-> "none", results |-> rs]
    ELSE LET r == ResolveRecord(rs[i]) IN
         IF r.raised # "none"
         THEN [raised |-> r.raised, rule |-> r.rule, results |-> rs]
         ELSE Resolve([rs EXCEPT ![i] = r.res], i + 1)

----------------------------------------------------------------------------
(* line 172: the returned sum *)

RECURSIVE SumScores(_, _)
SumScores(rs, i) ==
    IF i > Len(rs) THEN 0 ELSE Val(rs[i].score) + SumScores(rs, i + 1)

\* Variant that sums max_score.
RECURSIVE SumMaxScores(_, _)
SumMaxScores(rs, i) ==
    IF i > Len(rs) THEN 0 ELSE Val(rs[i].max_score) + SumMaxScores(rs, i + 1)

FinalScoreOfMaxScores(rs) == SumMaxScores(rs, 1)

FinalScore(rs) == SumScores(rs, 1)

----------------------------------------------------------------------------
(* ResultSynthesizer.synthesize_score as a whole *)

Raise(kind, why, rs) ==
    [raised |-> kind, rule |-> why, results |-> rs, value |-> None]

synthesize_score(rs, meta, ts) ==
    LET p == Partition(rs, 1, PartitionStart) IN
    IF p.raised # "none" THEN Raise(p.raised, p.rule, rs)
    ELSE
    LET t == TotalScore(meta, ts) IN
    IF t.raised # "none" THEN Raise(t.raised, "total_score", rs)
    ELSE
    IF OverBudget(p.max_score_sum, Val(t.value))
    THEN Raise("InternalError", "over_budget", rs)
    ELSE
    LET a == Allocate(rs, p.results_with_weight, 1,
                      RemainingScore(Val(t.value), p.max_score_sum), p.weight_sum) IN
    IF a.raised # "none" THEN Raise(a.raised, "division", a.results)
    ELSE
    LET s == Resolve(a.results, 1) IN
    IF s.raised # "none" THEN Raise(s.raised, s.rule, s.results)
    ELSE [raised |-> "none", rule |-> "none", results |-> s.results,
          value |-> Some(FinalScore(s.results))]

----------------------------------------------------------------------------
(* Inputs *)

RECURSIVE SeqsUpTo(_, _)
SeqsUpTo(S, n) ==
    IF n = 0 THEN {<< >>}
    ELSE LET shorter == SeqsUpTo(S, n - 1) IN
         shorter \cup {Append(s, x) : s \in {t \in shorter : Len(t) = n - 1}, x \in S}

Opt(S) == {None} \cup {Some(v * Unit) : v \in S}

GenericRecords ==
    {TestResult(sc, ms, w, ex, st) :
        sc \in Opt({2}), ms \in Opt({5}), w \in {None, Some(1)},
        ex \in Opt({7}), st \in {"passed", "failed"}}

SignedRecords ==
    {TestResult(sc, ms, w, ex, "passed") :
        sc \in Opt({-1, 2}), ms \in Opt({-1, 5}), w \in {None, Some(1)},
        ex \in Opt({-1})}

PoolRecords ==
    {TestResult(None, None, Some(w), None, st) :
        w \in {-1, 0, 1, 3}, st \in {"passed", "errored"}}
    \cup
    {TestResult(None, Some(ms * Unit), None, None, st) :
        ms \in {8, 25}, st \in {"passed", "errored"}}

FixedRecords ==
    {TestResult(None, Some(ms * Unit), None, None, st) :
        ms \in {0, 5, 10}, st \in {"passed", "failed"}}

InitFixed ==
    /\ results \in SeqsUpTo(FixedRecords, MaxResults)
    /\ metadata = None
    /\ total_score = Some(10 * Unit)

InitGeneric ==
    /\ results \in SeqsUpTo(GenericRecords, MaxResults)
    /\ metadata \in Opt({5})
    /\ total_score \in Opt({10})

InitSigned ==
    /\ results \in SeqsUpTo(SignedRecords, MaxResults)
    /\ metadata = None
    /\ total_score \in Opt({5, 10}) \ {None}

InitPool ==
    /\ results \in SeqsUpTo(PoolRecords, MaxPool)
    /\ metadata = None
    /\ total_score \in Opt({10, 20}) \ {None}

NoHooks ==
    /\ pre_tests = << >>
    /\ battery = 0
    /\ post_tests = << >>
    /\ phase = "DONE"
    /\ unit = 1
    /\ body_pc = "idle"
    /\ gen_left = 0
    /\ result_proxy = None
    /\ addition_test_results = << >>
    /\ hook_log = << >>

NoChecks ==
    /\ recs = << >>
    /\ checks = << >>

NoConfigOperation ==
    [op |-> "none", n |-> 0, raised |-> "none", building |-> FALSE,
     prev |-> "c0", value |-> "c0"]

NoConfig ==
    /\ is_building = FALSE
    /\ injection_config = "c0"
    /\ cfg_last = NoConfigOperation

NoUpload ==
    /\ timers = << >>
    /\ upload_info_timer = None
    /\ pending_uploads = 0
    /\ docker_status = "building"
    /\ workers = 0
    /\ gui_log = [presses |-> 0, ticks |-> 0, built_seen |-> FALSE, went_back |-> FALSE]

NoAux == NoChecks /\ NoConfig /\ NoUpload

NoOperation ==
    [op |-> "none", n |-> 0, prev |-> NewTestResult(<<"test", 1>>),
     error |-> "", set_failed |-> FALSE]

NoRecord ==
    /\ rec = NewTestResult(<<"test", 1>>)
    /\ last = NoOperation

Init ==
    /\ (InitGeneric \/ InitSigned \/ InitPool \/ InitFixed)
    /\ outcome = "idle"
    /\ rule = "none"
    /\ ret = None
    /\ before = << >>
    /\ calls = 0
    /\ NoHooks
    /\ NoRecord
    /\ NoAux

----------------------------------------------------------------------------
(* Actions *)

SynthesizeScore ==
    /\ calls < MaxCalls
    /\ LET r == synthesize_score(results, metadata, total_score) IN
         /\ results' = r.results
         /\ outcome' = IF r.raised = "none" THEN "returned" ELSE r.raised
         /\ rule' = r.rule
         /\ ret' = r.value
    /\ before' = results
    /\ calls' = calls + 1
    /\ UNCHANGED <<metadata, total_score, hookvars, recvars, auxvars>>

Next == SynthesizeScore

Spec == Init /\ [][Next]_vars

----------------------------------------------------------------------------
(* synthesize_score called again on the same ResultSynthesizer after a call
   that returned, as to_gradescope_json (line 183) does after an earlier
   synthesize_score or to_gradescope_json. *)

RepeatRecords ==
    {TestResult(None, Some(5 * Unit), None, ex, st) :
        ex \in Opt({2}), st \in {"passed", "failed"}}
    \cup {TestResult(None, None, Some(w), None, st) :
        w \in {1, 3}, st \in {"passed", "failed"}}
    \cup {TestResult(Some(2 * Unit), Some(5 * Unit), None, None, "passed")}

SynthesizeScoreAgain ==
    /\ outcome = "returned"
    /\ calls < MaxCalls + MaxRepeats
    /\ LET r == synthesize_score(results, metadata, total_score) IN
         /\ results' = r.results
         /\ outcome' = IF r.raised = "none" THEN "returned" ELSE r.raised
         /\ rule' = r.rule
         /\ ret' = r.value
    /\ before' = results
    /\ calls' = calls + 1
    /\ UNCHANGED <<metadata, total_score, hookvars, recvars, auxvars>>

InitRepeat ==
    /\ results \in SeqsUpTo(RepeatRecords, MaxResults)
    /\ metadata = None
    /\ total_score \in {Some(10 * Unit), Some(15 * Unit)}
    /\ outcome = "idle"
    /\ rule = "none"
    /\ ret = None
    /\ before = << >>
    /\ calls = 0
    /\ NoHooks
    /\ NoRecord
    /\ NoAux

NextRepeat == SynthesizeScore \/ SynthesizeScoreAgain

SpecRepeat == InitRepeat /\ [][NextRepeat]_vars

----------------------------------------------------------------------------
(* The hook pipeline: pre-test hooks, the test battery, then               *)
(* ResultSynthesizer.run_post_tests (result_synthesizer.py lines 88-102).  *)
(* A hook is declared by its as_test_case flag and its body; the function  *)
(* of the i-th hook of a kind is named <<kind, i>>.                        *)

PreHookDecls == {[as_test_case |-> a, body |-> "noop"] : a \in BOOLEAN}

PostHookDecls ==
    {[as_test_case |-> TRUE, body |-> b] :
        b \in {"noop", "set_score", "add_error", "raise", "lazy"}}
    \cup
    {[as_test_case |-> FALSE, body |-> b] : b \in {"noop", "raise", "lazy"}}

\* Variant that creates a record whatever as_test_case says.
ResultProxyAlways(decl, kind, i) == Some(NewTestResult(<<kind, i>>))

\* lines 92-95: the record handed to the hook
ResultProxyFor(decl, kind, i) ==
    IF decl.as_test_case THEN Some(NewTestResult(<<kind, i>>)) ELSE None

\* What a hook body does to the record it is given when it is called.
HookBody(body, proxy) ==
    IF body = "raise" THEN [raised |-> TRUE, proxy |-> proxy]
    ELSE IF body = "set_score" /\ proxy # None
    THEN [raised |-> FALSE, proxy |-> Some(SetScore(Val(proxy), 3 * Unit))]
    ELSE IF body = "add_error" /\ proxy # None
    THEN [raised |-> FALSE, proxy |-> Some(AddError(Val(proxy), "e1", TRUE))]
    ELSE [raised |-> FALSE, proxy |-> proxy]

\* Variant that puts the new records in front of the old ones.
ExtendedInFront(rs, addition) == addition \o rs

\* line 101: self._results.extend(addition_test_results)
Extended(rs, addition) == rs \o addition

Event(kind, i, ev, proxy) ==
    [kind |-> kind, unit |-> i, ev |-> ev, seen |-> results, proxy |-> proxy]

RunPreHook ==
    /\ phase = "PRE_HOOKS"
    /\ unit <= Len(pre_tests)
    /\ LET proxy == ResultProxyFor(pre_tests[unit], "pre", unit)
           done == HookBody(pre_tests[unit].body, proxy).proxy
       IN  /\ results' = IF done # None THEN Append(results, Val(done)) ELSE results
           /\ hook_log' = hook_log \o <<Event("pre", unit, "start", proxy),
                                        Event("pre", unit, "end", done)>>
    /\ unit' = unit + 1
    /\ UNCHANGED <<metadata, total_score, outcome, rule, ret, before, calls,
                   pre_tests, battery, post_tests, phase, body_pc, gen_left,
                   result_proxy, addition_test_results, recvars, auxvars>>

PreHooksDone ==
    /\ phase = "PRE_HOOKS"
    /\ unit > Len(pre_tests)
    /\ phase' = "BATTERY"
    /\ unit' = 1
    /\ UNCHANGED <<synthvars, pre_tests, battery, post_tests, body_pc, gen_left,
                   result_proxy, addition_test_results, hook_log, recvars, auxvars>>

RunBatteryTest ==
    /\ phase = "BATTERY"
    /\ unit <= battery
    /\ results' = Append(results, NewTestResult(<<"test", unit>>))
    /\ unit' = unit + 1
    /\ UNCHANGED <<metadata, total_score, outcome, rule, ret, before, calls,
                   pre_tests, battery, post_tests, phase, body_pc, gen_left,
                   result_proxy, addition_test_results, hook_log, recvars, auxvars>>

\* Entering run_post_tests (line 90).
BatteryDone ==
    /\ phase = "BATTERY"
    /\ unit > battery
    /\ phase' = "POST_HOOKS"
    /\ unit' = 1
    /\ addition_test_results' = << >>
    /\ UNCHANGED <<synthvars, pre_tests, battery, post_tests, body_pc, gen_left,
                   result_proxy, hook_log, recvars, auxvars>>

\* lines 91-96: create the record and call the post test; an exception of the
\* body leaves run_post_tests at once.
PostTestCall ==
    /\ phase = "POST_HOOKS"
    /\ body_pc = "idle"
    /\ unit <= Len(post_tests)
    /\ LET decl == post_tests[unit]
           proxy == ResultProxyFor(decl, "post", unit)
           b == HookBody(decl.body, proxy)
       IN  /\ result_proxy' = b.proxy
           /\ hook_log' =
                 IF b.raised
                 THEN hook_log \o <<Event("post", unit, "start", proxy),
                                    Event("post", unit, "raise", proxy)>>
                 ELSE Append(hook_log, Event("post", unit, "start", proxy))
           /\ phase' = IF b.raised THEN "ABORTED" ELSE phase
           /\ body_pc' = IF b.raised THEN "idle"
                         ELSE IF decl.body = "lazy" THEN "draining"
                         ELSE "returned"
           /\ gen_left' = IF decl.body = "lazy" THEN MaxYields ELSE 0
    /\ UNCHANGED <<synthvars, pre_tests, battery, post_tests, unit,
                   addition_test_results, recvars, auxvars>>

\* post_test_hook.py lines 28-29: a lazy body is drained before _run returns.
PostTestDrain ==
    /\ phase = "POST_HOOKS"
    /\ body_pc = "draining"
    /\ gen_left' = IF gen_left > 0 THEN gen_left - 1 ELSE 0
    /\ body_pc' = IF gen_left > 0 THEN "draining" ELSE "returned"
    /\ UNCHANGED <<synthvars, pre_tests, battery, post_tests, phase, unit,
                   result_proxy, addition_test_results, hook_log, recvars, auxvars>>

\* Variant that puts the record into results as soon as its post test
\* returned.
PostTestCollectPublishing ==
    /\ phase = "POST_HOOKS"
    /\ body_pc = "returned"
    /\ results' =
          IF result_proxy # None
          THEN Append(results, Val(result_proxy))
          ELSE results
    /\ hook_log' = Append(hook_log, Event("post", unit, "end", result_proxy))
    /\ result_proxy' = None
    /\ body_pc' = "idle"
    /\ unit' = unit + 1
    /\ UNCHANGED <<metadata, total_score, outcome, rule, ret, before, calls,
                   pre_tests, battery, post_tests, phase, gen_left,
                   addition_test_results, recvars, auxvars>>

\* lines 98-99: collect the record of the post test that returned.
PostTestCollect ==
    /\ phase = "POST_HOOKS"
    /\ body_pc = "returned"
    /\ addition_test_results' =
          IF result_proxy # None
          THEN Append(addition_test_results, Val(result_proxy))
          ELSE addition_test_results
    /\ hook_log' = Append(hook_log, Event("post", unit, "end", result_proxy))
    /\ result_proxy' = None
    /\ body_pc' = "idle"
    /\ unit' = unit + 1
    /\ UNCHANGED <<synthvars, pre_tests, battery, post_tests, phase, gen_left,
                   recvars, auxvars>>

\* lines 101-102: publish the collected records and return.
PostTestsExtend ==
    /\ phase = "POST_HOOKS"
    /\ body_pc = "idle"
    /\ unit > Len(post_tests)
    /\ results' = Extended(results, addition_test_results)
    /\ phase' = "DONE"
    /\ UNCHANGED <<metadata, total_score, outcome, rule, ret, before, calls,
                   pre_tests, battery, post_tests, unit, body_pc, gen_left,
                   result_proxy, addition_test_results, hook_log, recvars, auxvars>>

InitHooks ==
    /\ results = << >>
    /\ metadata = None
    /\ total_score = Some(10 * Unit)
    /\ outcome = "idle"
    /\ rule = "none"
    /\ ret = None
    /\ before = << >>
    /\ calls = 0
    /\ pre_tests \in SeqsUpTo(PreHookDecls, MaxPre)
    /\ battery \in 0..MaxBattery
    /\ post_tests \in SeqsUpTo(PostHookDecls, MaxPost)
    /\ phase = "PRE_HOOKS"
    /\ unit = 1
    /\ body_pc = "idle"
    /\ gen_left = 0
    /\ result_proxy = None
    /\ addition_test_results = << >>
    /\ hook_log = << >>
    /\ NoRecord
    /\ NoAux

NextHooks ==
    \/ RunPreHook
    \/ PreHooksDone
    \/ RunBatteryTest
    \/ BatteryDone
    \/ PostTestCall
    \/ PostTestDrain
    \/ PostTestCollect
    \/ PostTestsExtend

SpecHooks == InitHooks /\ [][NextHooks]_vars

----------------------------------------------------------------------------
(* The operations of one TestResult, applied in any order.  last remembers
   the operation applied last, its arguments and the record before it. *)

Errors == {"e1", "e2"}

Statuses == {"passed", "failed"}

Applied(op, r, error, set_failed) ==
    /\ last.n < MaxOps
    /\ rec' = r
    /\ last' = [op |-> op, n |-> last.n + 1, prev |-> rec,
                error |-> error, set_failed |-> set_failed]
    /\ UNCHANGED <<synthvars, hookvars, auxvars>>

DoSetName == Applied("set_name", SetName(rec, "n1"), "", FALSE)

DoAddDescription == Applied("add_description", AddDescription(rec, "d1"), "", FALSE)

DoSetDescription == Applied("set_description", SetDescription(rec, <<"d2">>), "", FALSE)

DoSetHidden == \E h \in BOOLEAN : Applied("set_hidden", SetHidden(rec, h), "", FALSE)

DoSetScore == Applied("set_score", SetScore(rec, 3 * Unit), "", FALSE)

DoSetExtraScore == Applied("set_extra_score", SetExtraScore(rec, Unit), "", FALSE)

DoAddError ==
    \E e \in Errors, f \in BOOLEAN : Applied("add_error", AddError(rec, e, f), e, f)

DoSetStatus == \E st \in Statuses : Applied("set_status", SetStatus(rec, st), "", FALSE)

InitRecord ==
    /\ results = << >>
    /\ metadata = None
    /\ total_score = Some(10 * Unit)
    /\ outcome = "idle"
    /\ rule = "none"
    /\ ret = None
    /\ before = << >>
    /\ calls = 0
    /\ NoHooks
    /\ NoRecord
    /\ NoAux

NextRecord ==
    \/ DoSetName
    \/ DoAddDescription
    \/ DoSetDescription
    \/ DoSetHidden
    \/ DoSetScore
    \/ DoSetExtraScore
    \/ DoAddError
    \/ DoSetStatus

SpecRecord == InitRecord /\ [][NextRecord]_vars

----------------------------------------------------------------------------
(* TestResult.has_valid_score, called on the records of a sequence in any
   order.  The asserts are evaluated in the order of the source; the first
   one that fails ends the call with AssertionError. *)

Negative(field) == field # None /\ Val(field) < 0

\* Variant that leaves out the assert on weight.
HasValidScoreSkippingWeight(r) ==
    IF Negative(r.score) THEN [raised |-> "AssertionError", field |-> "score"]
    ELSE IF Negative(r.max_score) THEN [raised |-> "AssertionError", field |-> "max_score"]
    ELSE IF Negative(r.extra_points) THEN [raised |-> "AssertionError", field |-> "extra_score"]
    ELSE [raised |-> "none", field |-> "none"]

HasValidScore(r) ==
    IF Negative(r.score) THEN [raised |-> "AssertionError", field |-> "score"]
    ELSE IF Negative(r.max_score) THEN [raised |-> "AssertionError", field |-> "max_score"]
    ELSE IF Negative(r.weight) THEN [raised |-> "AssertionError", field |-> "weight"]
    ELSE IF Negative(r.extra_points) THEN [raised |-> "AssertionError", field |-> "extra_score"]
    ELSE [raised |-> "none", field |-> "none"]

Unset == TestResult(None, None, None, None, "passed")

ValidityValues == {-1, 0}

ValidityRecords ==
    {Unset}
    \cup {[Unset EXCEPT !.score = Some(v * Unit)] : v \in ValidityValues}
    \cup {[Unset EXCEPT !.max_score = Some(v * Unit)] : v \in ValidityValues}
    \cup {[Unset EXCEPT !.weight = Some(v)] : v \in ValidityValues}
    \cup {[Unset EXCEPT !.extra_points = Some(v * Unit)] : v \in ValidityValues}
    \cup {TestResult(Some(0), Some(2 * Unit), Some(0), Some(2 * Unit), "failed"),
          TestResult(None, Some(-Unit), Some(-1), None, "passed")}

CheckValid(i) ==
    /\ Len(checks) < MaxChecks
    /\ LET r == HasValidScore(recs[i]) IN
         checks' = Append(checks, [i |-> i, raised |-> r.raised,
                                   field |-> r.field, seen |-> recs])
    /\ UNCHANGED <<recs, synthvars, hookvars, recvars, cfgvars, guivars>>

InitValid ==
    /\ results = << >>
    /\ metadata = None
    /\ total_score = Some(10 * Unit)
    /\ outcome = "idle"
    /\ rule = "none"
    /\ ret = None
    /\ before = << >>
    /\ calls = 0
    /\ NoHooks
    /\ NoRecord
    /\ recs \in SeqsUpTo(ValidityRecords, MaxValid)
    /\ checks = << >>
    /\ NoConfig
    /\ NoUpload

NextValid == \E i \in DOMAIN recs : CheckValid(i)

SpecValid == InitValid /\ [][NextValid]_vars

----------------------------------------------------------------------------
(* gap.core.tester: TesterConfig, its building flag and the guarded setter
   of injection_config. *)

ConfigValues == {"c1", "c2"}

\* The attributes an instance of TesterConfig has (lines 19-41).
TesterConfigAttributes ==
    {"_is_building", "_injection_config", "start_building", "finish_building",
     "is_building", "injection_config"}

\* lines 11-14: the wrapper reads self.tester_config.is_building on the
\* object whose method it wraps, before it calls the method.
CheckConfigBuildingFlag(attributes, building) ==
    IF "tester_config" \notin attributes THEN "AttributeError"
    ELSE IF building THEN "RuntimeError"
    ELSE "none"

ConfigOperation(op, raised, value) ==
    /\ cfg_last.n < MaxConfigOps
    /\ cfg_last' = [op |-> op, n |-> cfg_last.n + 1, raised |-> raised,
                    building |-> is_building, prev |-> injection_config,
                    value |-> value]
    /\ UNCHANGED <<synthvars, hookvars, recvars, validvars, guivars>>

\* Tester.build_config (lines 53-55) -> TesterConfig.start_building
StartBuilding ==
    /\ is_building' = TRUE
    /\ UNCHANGED injection_config
    /\ ConfigOperation("start_building", "none", injection_config)

\* Tester.__exit__ (lines 63-64), with or without an exception of the
\* with-block -> TesterConfig.finish_building
FinishBuilding ==
    /\ is_building' = FALSE
    /\ UNCHANGED injection_config
    /\ \E exc \in {"none", "KeyError"} :
          ConfigOperation("finish_building", exc, injection_config)

\* tester_config.injection_config = value (lines 38-41)
SetInjectionConfig ==
    \E value \in ConfigValues :
        LET raised == CheckConfigBuildingFlag(TesterConfigAttributes, is_building) IN
        /\ injection_config' = IF raised = "none" THEN value ELSE injection_config
        /\ UNCHANGED is_building
        /\ ConfigOperation("set_injection_config", raised, value)

InitConfig ==
    /\ results = << >>
    /\ metadata = None
    /\ total_score = Some(10 * Unit)
    /\ outcome = "idle"
    /\ rule = "none"
    /\ ret = None
    /\ before = << >>
    /\ calls = 0
    /\ NoHooks
    /\ NoRecord
    /\ NoChecks
    /\ NoUpload
    /\ is_building = FALSE
    /\ injection_config \in {"c0"} \cup ConfigValues
    /\ cfg_last = [NoConfigOperation EXCEPT !.prev = injection_config,
                                            !.value = injection_config]

NextConfig == StartBuilding \/ FinishBuilding \/ SetInjectionConfig

SpecConfig == InitConfig /\ [][NextConfig]_vars

----------------------------------------------------------------------------
(* gapper.connect.gui: the autograder upload screen.  Handlers run one at a
   time on the event loop and give way only at an await; every Repeat timer
   is a thread of its own that starts a refresh_upload_info worker at each
   tick until it is cancelled. *)

Cancelled(ts, t) == [ts EXCEPT ![t] = "cancelled"]

UploadStep ==
    UNCHANGED <<synthvars, hookvars, recvars, validvars, cfgvars>>

\* lines 60-75: Upload is pressed and the handler waits in upload_autograder.
PressUpload ==
    /\ ~gui_log.went_back
    /\ gui_log.presses < MaxPresses
    /\ pending_uploads' = pending_uploads + 1
    /\ gui_log' = [gui_log EXCEPT !.presses = @ + 1]
    /\ UNCHANGED <<timers, upload_info_timer, docker_status, workers>>
    /\ UploadStep

\* lines 76, 83-87: the upload returned; a new Repeat is stored in
\* upload_info_timer and started.
UploadSucceeds ==
    /\ ~gui_log.went_back
    /\ pending_uploads > 0
    /\ pending_uploads' = pending_uploads - 1
    /\ timers' = Append(timers, "running")
    /\ upload_info_timer' = Some(Len(timers) + 1)
    /\ UNCHANGED <<docker_status, workers, gui_log>>
    /\ UploadStep

\* lines 77-82: the upload raised; no timer is started.
UploadFails ==
    /\ ~gui_log.went_back
    /\ pending_uploads > 0
    /\ pending_uploads' = pending_uploads - 1
    /\ UNCHANGED <<timers, upload_info_timer, docker_status, workers, gui_log>>
    /\ UploadStep

\* The docker image of the uploaded autograder gets built.
DockerBuilt ==
    /\ timers # << >>
    /\ docker_status = "building"
    /\ docker_status' = "built"
    /\ UNCHANGED <<timers, upload_info_timer, pending_uploads, workers, gui_log>>
    /\ UploadStep

\* lines 17-20 and 85: a timer that is not cancelled fires and starts a worker.
TimerTick ==
    /\ gui_log.ticks < MaxTicks
    /\ \E t \in DOMAIN timers : timers[t] = "running"
    /\ workers' = workers + 1
    /\ gui_log' = [gui_log EXCEPT !.ticks = @ + 1]
    /\ UNCHANGED <<timers, upload_info_timer, pending_uploads, docker_status>>
    /\ UploadStep

\* lines 96-113: a worker reads the status and, on "built", cancels the timer
\* that upload_info_timer refers to.
RefreshUploadInfo ==
    /\ workers > 0
    /\ workers' = workers - 1
    /\ IF docker_status = "built"
       THEN /\ timers' = Cancelled(timers, Val(upload_info_timer))
            /\ gui_log' = [gui_log EXCEPT !.built_seen = TRUE]
       ELSE UNCHANGED <<timers, gui_log>>
    /\ UNCHANGED <<upload_info_timer, pending_uploads, docker_status>>
    /\ UploadStep

\* lines 89-94: Go Back cancels the timer that upload_info_timer refers to,
\* if any, and pops the screen.
ActionGoBack ==
    /\ ~gui_log.went_back
    /\ timers' = IF upload_info_timer # None
                 THEN Cancelled(timers, Val(upload_info_timer))
                 ELSE timers
    /\ gui_log' = [gui_log EXCEPT !.went_back = TRUE]
    /\ UNCHANGED <<upload_info_timer, pending_uploads, docker_status, workers>>
    /\ UploadStep

InitUpload ==
    /\ results = << >>
    /\ metadata = None
    /\ total_score = Some(10 * Unit)
    /\ outcome = "idle"
    /\ rule = "none"
    /\ ret = None
    /\ before = << >>
    /\ calls = 0
    /\ NoHooks
    /\ NoRecord
    /\ NoAux

NextUpload ==
    \/ PressUpload
    \/ UploadSucceeds
    \/ UploadFails
    \/ DockerBuilt
    \/ TimerTick
    \/ RefreshUploadInfo
    \/ ActionGoBack

SpecUpload == InitUpload /\ [][NextUpload]_vars

----------------------------------------------------------------------------
(* Vocabulary of the properties below, stated over the call's input        *)
(* (before, metadata, total_score) and its result (results, outcome, rule, *)
(* ret) without reference to the loops above.                              *)

Called == outcome # "idle"
Returned == outcome = "returned"

HasTotal == metadata # None \/ total_score # None
TheTotal == IF metadata # None THEN Val(metadata) ELSE Val(total_score)

RECURSIVE SumTo(_, _)
SumTo(f, n) == IF n = 0 THEN 0 ELSE f[n] + SumTo(f, n - 1)

Abs(x) == IF x < 0 THEN -x ELSE x

BothSet(res) == res.max_score # None /\ res.weight # None
BothUnset(res) == res.max_score = None /\ res.weight = None
IsFixed(res) == res.max_score # None /\ res.weight = None
IsWeighted(res) == res.weight # None /\ res.max_score = None
IsPrescored(res) == res.score # None

MaxScoreSumOf(rs) ==
    SumTo([i \in DOMAIN rs |->
              IF rs[i].max_score # None THEN Val(rs[i].max_score) ELSE 0], Len(rs))
FixedSumOf(rs) ==
    SumTo([i \in DOMAIN rs |->
              IF IsFixed(rs[i]) THEN Val(rs[i].max_score) ELSE 0], Len(rs))
WeightSumOf(rs) ==
    SumTo([i \in DOMAIN rs |->
              IF IsWeighted(rs[i]) THEN Val(rs[i].weight) ELSE 0], Len(rs))
WeightedIn(rs) == {i \in DOMAIN rs : IsWeighted(rs[i])}
AllocatedSum ==
    SumTo([i \in DOMAIN results |->
              IF i \in WeightedIn(before) THEN Val(results[i].max_score) ELSE 0],
          Len(results))
ExpectedShare(i) ==
    RoundDiv(Val(before[i].weight) * (TheTotal - FixedSumOf(before)),
             WeightSumOf(before))

SameScoringFields ==
    /\ Len(results) = Len(before)
    /\ \A i \in DOMAIN before :
          /\ results[i].max_score = before[i].max_score
          /\ results[i].weight = before[i].weight
          /\ results[i].score = before[i].score

Invalid(rs) == {i \in DOMAIN rs : BothSet(rs[i]) \/ BothUnset(rs[i])}
FirstInvalid(rs) == CHOOSE i \in Invalid(rs) : \A j \in Invalid(rs) : i <= j

----------------------------------------------------------------------------
\* C1: synthesize_score fails with InternalError and returns no score whenever
\* the sum of max_score over all records exceeds the total score; extra points
\* are not counted, so the over-budget check rejects only when that sum exceeds
\* the total score.
C1_OverBudgetRejected ==
    (Called /\ HasTotal) =>
        /\ (MaxScoreSumOf(before) > TheTotal) =>
               (outcome = "InternalError" /\ ret = None)
        /\ (rule = "over_budget") => (MaxScoreSumOf(before) > TheTotal)

C1_Witness ==
    /\ rule = "over_budget" /\ outcome = "InternalError" /\ ret = None
    /\ Len(before) = 1
    /\ before[1].max_score = Some(25 * Unit)
    /\ TheTotal = 20 * Unit

\* C2: synthesize_score fails with InternalError whenever some record has both
\* max_score and weight set, and at that failure no record's max_score, weight
\* or score differs from its value before the call.
C2_BothSetRejectedBeforeAllocation ==
    (Called /\ \E i \in DOMAIN before : BothSet(before[i])) =>
        (outcome = "InternalError" /\ ret = None /\ SameScoringFields)

C2_Witness ==
    /\ rule = "both_set" /\ outcome = "InternalError"
    /\ Len(before) = 2
    /\ IsWeighted(before[1]) /\ before[1].score = None
    /\ BothSet(before[2])
    /\ SameScoringFields

C4_WeightedAllocation ==
    Returned =>
        /\ \A i \in WeightedIn(before) :
              /\ results[i].max_score = Some(ExpectedShare(i))
              /\ results[i].weight = None
        /\ (/\ Len(before) = 2 /\ TheTotal = 20 * Unit
            /\ IsFixed(before[1]) /\ before[1].max_score = Some(8 * Unit)
            /\ IsWeighted(before[2]) /\ before[2].weight = Some(1))
               => results[2].max_score = Some(12 * Unit)
        /\ (/\ Len(before) = 2 /\ TheTotal = 10 * Unit
            /\ IsWeighted(before[1]) /\ before[1].weight = Some(1)
            /\ IsWeighted(before[2]) /\ before[2].weight = Some(3))
               => /\ 2 * Val(results[1].max_score) = 5 * Unit
                  /\ 2 * Val(results[2].max_score) = 15 * Unit

C4_Witness ==
    /\ Returned
    /\ Len(before) = 2 /\ TheTotal = 20 * Unit
    /\ IsFixed(before[1]) /\ before[1].max_score = Some(8 * Unit)
    /\ IsWeighted(before[2]) /\ before[2].weight = Some(1)
    /\ results[2].max_score = Some(12 * Unit) /\ results[2].weight = None

\* C5: after a successful synthesize_score every record whose score was not
\* pre-set has score = extra_points if it passed and extra_points is set,
\* score = max_score if it passed and extra_points is unset, and score = 0 if
\* it did not pass.
C5_ScoreFromPassStatus ==
    Returned =>
        \A i \in DOMAIN before :
            before[i].score = None =>
                results[i].score =
                    IF before[i].pass_status = "passed"
                    THEN IF before[i].extra_points # None
                         THEN before[i].extra_points
                         ELSE results[i].max_score
                    ELSE Some(0)

C5_Witness ==
    /\ Returned
    /\ Len(before) = 2
    /\ before[1] = TestResult(None, Some(5 * Unit), None, None, "failed")
    /\ before[2] = TestResult(None, Some(5 * Unit), None, Some(7 * Unit), "passed")
    /\ results[1].score = Some(0)
    /\ results[2].score = Some(7 * Unit)

\* C6 (as claimed): after a successful synthesize_score every record whose
\* score was already set has the score, max_score, weight, extra_points and
\* pass_status it had before the call.
C6_PrescoredUntouched ==
    Returned =>
        \A i \in DOMAIN before :
            IsPrescored(before[i]) => results[i] = before[i]

\* C6 (amended): after a successful synthesize_score every record whose score
\* was already set keeps its score, extra_points and pass_status, and its
\* pre-set score is what it adds to the returned sum; its max_score and weight
\* are kept only if it has no weight: a prescored record with a weight gets
\* its share as max_score and its weight cleared like any weighted record.
C6_PrescoredKeepsScore ==
    Returned =>
        /\ \A i \in DOMAIN before :
              IsPrescored(before[i]) =>
                  /\ results[i].score = before[i].score
                  /\ results[i].extra_points = before[i].extra_points
                  /\ results[i].pass_status = before[i].pass_status
                  /\ (before[i].weight = None) => results[i] = before[i]
                  /\ (before[i].weight # None) =>
                         /\ results[i].weight = None
                         /\ results[i].max_score = Some(ExpectedShare(i))
        /\ ret = Some(SumTo([i \in DOMAIN before |->
                                IF IsPrescored(before[i])
                                THEN Val(before[i].score)
                                ELSE Val(results[i].score)], Len(before)))

C6_Witness ==
    /\ Returned
    /\ \E i \in DOMAIN before :
          /\ IsPrescored(before[i]) /\ IsWeighted(before[i])
          /\ results[i].score = before[i].score
          /\ results[i].weight = None /\ results[i].max_score # None
    /\ \E i \in DOMAIN before :
          /\ IsPrescored(before[i]) /\ IsFixed(before[i])
          /\ before[i].pass_status = "passed"
          /\ before[i].score # before[i].max_score
          /\ results[i] = before[i]

\* C7: the value returned by a successful synthesize_score is the sum of the
\* score fields of all records as they stand after the call, 0 when there are
\* no records.
C7_FinalScoreIsSumOfScores ==
    Returned =>
        /\ ret = Some(SumTo([i \in DOMAIN results |-> Val(results[i].score)],
                            Len(results)))
        /\ (results = << >>) => ret = Some(0)

C7_Witness ==
    /\ Returned
    /\ Len(results) = 2
    /\ Val(results[1].score) > 0 /\ Val(results[2].score) > 0
    /\ results[1].score # results[2].score
    /\ results[1].score # results[1].max_score
    /\ Val(ret) = Val(results[1].score) + Val(results[2].score)

\* C8: no negative score survives synthesis: after synthesize_score returns,
\* every record's score is >= 0, whatever the signs of the scores, max scores,
\* weights and extra points it was given.
C8_NoNegativeScoreSurvives ==
    Returned => \A i \in DOMAIN results : Val(results[i].score) >= 0

C10_FixedOnlyWithinTotal ==
    (Returned /\ \A i \in DOMAIN before : before[i].weight = None) =>
        Val(ret) <= TheTotal

\* C10 (amended): when every record has only a non-negative max_score set (no
\* weight, no extra points, no pre-set score) and synthesize_score succeeds,
\* the returned score is <= the total score; extra points and pre-set scores
\* are outside the budget check and can push the returned score above it.
C10_PlainFixedWithinTotal ==
    (Returned /\ \A i \in DOMAIN before :
                    /\ IsFixed(before[i]) /\ Val(before[i].max_score) >= 0
                    /\ before[i].extra_points = None
                    /\ before[i].score = None) =>
        Val(ret) <= TheTotal

C10_Witness ==
    /\ Returned
    /\ Len(before) = 2
    /\ \A i \in DOMAIN before :
          /\ IsFixed(before[i]) /\ Val(before[i].max_score) > 0
          /\ before[i].extra_points = None /\ before[i].score = None
          /\ before[i].pass_status = "passed"
    /\ Val(ret) = TheTotal

----------------------------------------------------------------------------
PlainFixed(res) ==
    /\ IsFixed(res) /\ Val(res.max_score) >= 0
    /\ res.extra_points = None /\ res.score = None

ZeroWeightPool(rs) == WeightedIn(rs) # {} /\ WeightSumOf(rs) = 0

\* C11 (as claimed): when no record has a weight and synthesize_score
\* succeeds, the returned score equals the total score if and only if every
\* record passed and no record has extra points.
C11_FullMarksIffAllPass ==
    (Returned /\ \A i \in DOMAIN before : before[i].weight = None) =>
        ((Val(ret) = TheTotal) <=>
            \A i \in DOMAIN before :
                /\ before[i].pass_status = "passed"
                /\ before[i].extra_points = None)

\* C11 (amended): when every record has only a non-negative max_score set (no
\* weight, no extra points, no pre-set score) and synthesize_score succeeds,
\* the returned score equals the total score if and only if the max_score
\* values add up to the total score and every record with a non-zero
\* max_score passed.
C11_FullMarksIffBudgetUsedAndAllPass ==
    (Returned /\ \A i \in DOMAIN before : PlainFixed(before[i])) =>
        ((Val(ret) = TheTotal) <=>
            /\ MaxScoreSumOf(before) = TheTotal
            /\ \A i \in DOMAIN before :
                  Val(before[i].max_score) > 0 =>
                      before[i].pass_status = "passed")

C11_Witness ==
    /\ Returned
    /\ Len(before) = 2
    /\ \A i \in DOMAIN before : PlainFixed(before[i])
    /\ before[1].max_score = Some(0) /\ before[1].pass_status = "failed"
    /\ before[2].pass_status = "passed"
    /\ Val(ret) = TheTotal

\* C12: synthesize_score fails with InternalError and returns no score
\* whenever some record has both score and extra_points set, the total score
\* resolves and the weights of a non-empty weighted group do not add up to 0.
C12_ScoreWithExtraRejected ==
    (/\ Called /\ HasTotal /\ ~ZeroWeightPool(before)
     /\ \E i \in DOMAIN before :
           before[i].score # None /\ before[i].extra_points # None) =>
        (outcome = "InternalError" /\ ret = None)

C12_Witness ==
    /\ outcome = "InternalError" /\ rule = "score_and_extra" /\ ret = None
    /\ Len(before) = 1
    /\ IsFixed(before[1])
    /\ before[1].score = Some(2 * Unit)
    /\ before[1].extra_points = Some(7 * Unit)

\* C13: when the weighted group is non-empty and its weights add up to 0,
\* synthesize_score fails with InternalError and returns no score.
C13_ZeroWeightSumIsInternalError ==
    (/\ Called /\ HasTotal /\ Invalid(before) = {}
     /\ MaxScoreSumOf(before) <= TheTotal
     /\ ZeroWeightPool(before)) =>
        (outcome = "InternalError" /\ ret = None)

\* The rule the claim expects to be reported: the lowest-numbered rule that
\* some record of the sequence violates.
ClaimedRule(rs) ==
    IF \E i \in DOMAIN rs : BothSet(rs[i]) THEN "both_set"
    ELSE IF \E i \in DOMAIN rs : BothUnset(rs[i]) THEN "both_none"
    ELSE IF MaxScoreSumOf(rs) > TheTotal THEN "over_budget"
    ELSE IF \E i \in DOMAIN rs : rs[i].score # None /\ Val(rs[i].score) < 0
         THEN "negative_score"
    ELSE IF \E i \in DOMAIN rs : rs[i].score # None /\ rs[i].extra_points # None
         THEN "score_and_extra"
    ELSE "none"

\* The raise statement reached first when the records are visited in sequence
\* order, stated from the input alone.
BadScore(rs) ==
    {i \in DOMAIN rs :
        rs[i].score # None /\ (Val(rs[i].score) < 0 \/ rs[i].extra_points # None)}
FirstBadScore(rs) == CHOOSE i \in BadScore(rs) : \A j \in BadScore(rs) : i <= j

RuleInCodeOrder(rs) ==
    IF Invalid(rs) # {}
    THEN IF BothUnset(rs[FirstInvalid(rs)]) THEN "both_none" ELSE "both_set"
    ELSE IF ~HasTotal THEN "total_score"
    ELSE IF MaxScoreSumOf(rs) > TheTotal THEN "over_budget"
    ELSE IF ZeroWeightPool(rs) THEN "division"
    ELSE IF BadScore(rs) # {}
         THEN IF Val(rs[FirstBadScore(rs)].score) < 0 THEN "negative_score"
              ELSE "score_and_extra"
    ELSE "none"

\* C14 (as claimed): when synthesize_score fails with InternalError, the error
\* is that of the lowest-numbered rule violated anywhere in the sequence (1
\* both set, 2 unscoreable, 3 over budget, 4 negative score, 5 score with
\* extra points), whatever the positions of the offending records.
C14_LowestRuleReported ==
    (Called /\ HasTotal /\ outcome = "InternalError") =>
        rule = ClaimedRule(before)

\* C14 (amended): the error is that of the first raise statement reached in
\* code order: rules 1 and 2 are checked record by record in one pass and the
\* first record in sequence order violating either decides; rule 3 is checked
\* only if no record violates rule 1 or 2; rules 4 and 5 are checked record by
\* record after the allocation, the first record with a pre-set score that is
\* negative or comes with extra points decides, rule 4 before rule 5 within
\* that record.  An unscoreable record followed by a record with both
\* max_score and weight fails with the unscoreable error.
C14_FirstRaiseInCodeOrder ==
    Called =>
        /\ rule = RuleInCodeOrder(before)
        /\ (outcome = "InternalError") <=>
               rule \in {"both_none", "both_set", "over_budget",
                         "negative_score", "score_and_extra"}
        /\ (/\ Len(before) = 2 /\ BothUnset(before[1]) /\ before[1].score = None
            /\ BothSet(before[2])) => rule = "both_none"

C14_Witness ==
    /\ outcome = "InternalError" /\ rule = "both_none"
    /\ Len(before) = 2
    /\ BothUnset(before[1]) /\ before[1].score = None
    /\ BothSet(before[2])

\* C15: a failed synthesize_score returns no score and leaves every record
\* with the score, max_score and weight it had before the call.
C15_FailureLeavesRecordsUnchanged ==
    (Called /\ ~Returned) => (ret = None /\ SameScoringFields)

----------------------------------------------------------------------------
(* Vocabulary of the hook properties *)

RunEnded == phase \in {"DONE", "ABORTED"}

NamesOf(rs) == [i \in DOMAIN rs |-> rs[i].default_name]

RECURSIVE ProducingNames(_, _, _)
ProducingNames(decls, kind, i) ==
    IF i > Len(decls) THEN << >>
    ELSE (IF decls[i].as_test_case THEN << <<kind, i>> >> ELSE << >>)
         \o ProducingNames(decls, kind, i + 1)

TestNames == [j \in 1..battery |-> <<"test", j>>]

DeclOf(e) == IF e.kind = "pre" THEN pre_tests[e.unit] ELSE post_tests[e.unit]

EventsOf(kind, i, ev) ==
    {n \in DOMAIN hook_log :
        hook_log[n].kind = kind /\ hook_log[n].unit = i /\ hook_log[n].ev = ev}

RecordsNamed(name) == {n \in DOMAIN results : results[n].default_name = name}

ExpectedRecord(name, body) ==
    IF body = "set_score" THEN [NewTestResult(name) EXCEPT !.score = Some(3 * Unit)]
    ELSE IF body = "add_error"
    THEN [NewTestResult(name) EXCEPT !.errors = <<"e1">>, !.pass_status = "failed"]
    ELSE NewTestResult(name)

\* C16: the results of a completed run are the records of the producing
\* pre-hooks in declaration order, then one record per battery test in
\* declaration order, then the records of the producing post-hooks in
\* declaration order; run_post_tests puts the post-hook records after all the
\* records that were already in results.
C16_ResultsInPipelineOrder ==
    (phase = "DONE") =>
        /\ NamesOf(results) =
               ProducingNames(pre_tests, "pre", 1) \o TestNames
                   \o ProducingNames(post_tests, "post", 1)
        /\ NamesOf(addition_test_results) = ProducingNames(post_tests, "post", 1)
        /\ \A n \in DOMAIN hook_log :
              hook_log[n].kind = "post" =>
                  results = hook_log[n].seen \o addition_test_results

C16_Witness ==
    /\ phase = "DONE"
    /\ Len(pre_tests) = 2 /\ battery = 2 /\ Len(post_tests) = 1
    /\ \A i \in DOMAIN pre_tests : pre_tests[i].as_test_case
    /\ post_tests[1].as_test_case
    /\ NamesOf(results) = << <<"pre", 1>>, <<"pre", 2>>, <<"test", 1>>,
                             <<"test", 2>>, <<"post", 1>> >>

\* C17: when the function of a post-hook raises, the run still invokes every
\* later hook and ends with the records of all producing hooks in results,
\* the raising hook's own record carrying an error and a status other than
\* passed.
C17_RaisingHookDoesNotHalt ==
    RunEnded =>
        \A j \in DOMAIN post_tests :
            post_tests[j].body = "raise" =>
                /\ \A m \in DOMAIN post_tests : EventsOf("post", m, "start") # {}
                /\ \A m \in DOMAIN post_tests :
                      post_tests[m].as_test_case =>
                          RecordsNamed(<<"post", m>>) # {}
                /\ post_tests[j].as_test_case =>
                      \E n \in RecordsNamed(<<"post", j>>) :
                          /\ results[n].errors # << >>
                          /\ results[n].pass_status # "passed"

\* C18: a hook with as_test_case true is handed a fresh record named after
\* its function, and a run that completes collects exactly that record, as
\* the body left it, into results; a hook with as_test_case false is handed
\* None and adds nothing to results.
C18_ProxyCreatedPassedAndCollected ==
    /\ \A n \in DOMAIN hook_log :
          LET e == hook_log[n] IN
          /\ (e.ev = "start") =>
                e.proxy = IF DeclOf(e).as_test_case
                          THEN Some(NewTestResult(<<e.kind, e.unit>>))
                          ELSE None
          /\ (e.ev = "end") =>
                e.proxy = IF DeclOf(e).as_test_case
                          THEN Some(ExpectedRecord(<<e.kind, e.unit>>, DeclOf(e).body))
                          ELSE None
    /\ (phase = "DONE") =>
          \A j \in DOMAIN post_tests :
              IF post_tests[j].as_test_case
              THEN /\ Cardinality(RecordsNamed(<<"post", j>>)) = 1
                   /\ \A n \in RecordsNamed(<<"post", j>>) :
                         /\ results[n] = ExpectedRecord(<<"post", j>>, post_tests[j].body)
                         /\ \A m \in EventsOf("post", j, "end") :
                               hook_log[m].proxy = Some(results[n])
              ELSE RecordsNamed(<<"post", j>>) = {}

C18_Witness ==
    /\ phase = "DONE"
    /\ Len(post_tests) = 2
    /\ post_tests[1] = [as_test_case |-> TRUE, body |-> "noop"]
    /\ post_tests[2] = [as_test_case |-> FALSE, body |-> "noop"]
    /\ hook_log[Len(hook_log)].proxy = None
    /\ results[Len(results)] = NewTestResult(<<"post", 1>>)

\* C19: within one run every declared hook is invoked exactly once, in
\* declaration order within its kind, and a hook is started only after the
\* hook before it has finished, a lazy body fully drained.
C19_EveryHookOnceInOrder ==
    RunEnded =>
        /\ \A j \in DOMAIN pre_tests : Cardinality(EventsOf("pre", j, "start")) = 1
        /\ \A j \in DOMAIN post_tests : Cardinality(EventsOf("post", j, "start")) = 1
        /\ \A n \in DOMAIN hook_log :
              (hook_log[n].ev = "start" /\ n > 1) =>
                  /\ hook_log[n - 1].ev = "end"
                  /\ (hook_log[n - 1].kind = hook_log[n].kind) =>
                         hook_log[n - 1].unit + 1 = hook_log[n].unit

IsPrefix(s, t) == Len(s) <= Len(t) /\ SubSeq(t, 1, Len(s)) = s

\* C20: add_error(error, set_failed) appends error as the last element of
\* errors and leaves the earlier errors and their order unchanged;
\* pass_status becomes failed when set_failed is true and is unchanged when
\* it is false; no other field changes; and whatever record operation is
\* applied, errors afterwards is errors before, or errors before with one
\* element appended.
C20_AddErrorAppendsAndFrames ==
    /\ (last.op = "add_error") =>
          /\ rec.errors = Append(last.prev.errors, last.error)
          /\ rec.pass_status =
                 IF last.set_failed THEN "failed" ELSE last.prev.pass_status
          /\ rec = [last.prev EXCEPT !.errors = rec.errors,
                                     !.pass_status = rec.pass_status]
    /\ (last.op # "none") =>
          /\ IsPrefix(last.prev.errors, rec.errors)
          /\ Len(rec.errors) <= Len(last.prev.errors) + 1
          /\ (last.op # "add_error") => rec.errors = last.prev.errors

C20_Witness ==
    /\ last.op = "add_error"
    /\ last.prev.errors = <<"e1">>
    /\ last.prev.pass_status = "passed"
    /\ last.error = "e2"
    /\ last.set_failed
    /\ rec.errors = <<"e1", "e2">>
    /\ rec.pass_status = "failed"

----------------------------------------------------------------------------
LoneWeightedPassing(rs) ==
    /\ Len(rs) = 1
    /\ IsWeighted(rs[1]) /\ Val(rs[1].weight) > 0
    /\ rs[1].score = None /\ rs[1].extra_points = None
    /\ rs[1].pass_status = "passed"

\* C21: with neither an explicit total score nor metadata, synthesize_score
\* returns no score for any results sequence, and a sequence that passes the
\* first loop (the empty one included) ends with the ValueError of the
\* total_score property; with at least one source the property does not
\* fail, and the total it yields is the metadata's total points when metadata
\* is present and the explicit value otherwise (seen as the score of a lone
\* passing weighted record, which is allocated the whole total).
C21_TotalScoreResolution ==
    Called =>
        /\ ~HasTotal =>
              /\ ~Returned /\ ret = None
              /\ (Invalid(before) = {}) => outcome = "ValueError"
        /\ HasTotal => outcome # "ValueError"
        /\ (HasTotal /\ LoneWeightedPassing(before)) =>
              /\ Returned
              /\ ret = IF metadata # None THEN metadata ELSE total_score

C21_Witness ==
    /\ Called
    /\ metadata = None /\ total_score = None
    /\ before = << >>
    /\ outcome = "ValueError" /\ ret = None

C21_WitnessBothSources ==
    /\ Returned
    /\ metadata # None /\ total_score # None /\ metadata # total_score
    /\ LoneWeightedPassing(before)
    /\ ret = metadata

----------------------------------------------------------------------------
ScoringFieldsOf(r) == {r.score, r.max_score, r.weight, r.extra_points}

IsValidRecord(r) == \A f \in ScoringFieldsOf(r) : f = None \/ Val(f) >= 0

ChecksOf(i) == {n \in DOMAIN checks : checks[n].i = i}

\* C22: has_valid_score fails exactly when one of score, max_score, weight,
\* extra_score of the record is set and negative, it changes no field of any
\* record, and a second call on the same record ends as the first one did; so
\* on a sequence of valid records every call succeeds and leaves every record
\* as it was.
C22_CheckValidReadOnlyIdempotent ==
    \A n \in DOMAIN checks :
        /\ (checks[n].raised = "AssertionError") <=> ~IsValidRecord(recs[checks[n].i])
        /\ checks[n].raised \in {"none", "AssertionError"}
        /\ checks[n].seen = recs
        /\ \A m \in ChecksOf(checks[n].i) : checks[m].raised = checks[n].raised

C22_Witness ==
    /\ Len(recs) = 2
    /\ \A i \in DOMAIN recs : IsValidRecord(recs[i]) /\ recs[i] # Unset
    /\ recs[1].weight = Some(0) /\ recs[2].score = Some(0)
    /\ \A i \in DOMAIN recs : Cardinality(ChecksOf(i)) = 2
    /\ \A n \in DOMAIN checks : checks[n].raised = "none" /\ checks[n].seen = recs

----------------------------------------------------------------------------
\* C23: a synthesize_score call made after a call that returned also
\* returns, returns the sum of the scores the records already had (the score
\* the earlier call returned), and changes no field of any record.
C23_SecondSynthesisRepeats ==
    (calls >= 2) =>
        /\ Returned
        /\ results = before
        /\ ret = Some(SumTo([i \in DOMAIN before |-> Val(before[i].score)], Len(before)))

----------------------------------------------------------------------------
FullyResolved(res) ==
    /\ res.weight = None
    /\ res.max_score # None
    /\ res.score # None

\* C24: after a synthesize_score call that returned, every record of results
\* has its weight unset, its max_score set and its score set, so no record
\* carries both max_score and weight.
C24_ResolvedAfterSuccess ==
    Returned =>
        /\ Len(results) = Len(before)
        /\ \A i \in DOMAIN results : FullyResolved(results[i]) /\ ~BothSet(results[i])

C24_Witness ==
    /\ Returned
    /\ Len(before) = 2
    /\ IsWeighted(before[1]) /\ before[1].score = None
    /\ IsFixed(before[2]) /\ before[2].score = None
    /\ \A i \in DOMAIN results : FullyResolved(results[i])

----------------------------------------------------------------------------
PostEvents == {n \in DOMAIN hook_log : hook_log[n].kind = "post"}

NamesBeforePostTests == ProducingNames(pre_tests, "pre", 1) \o TestNames

\* C25: while a post test is running, and after a post test raised, results
\* holds exactly the records it held when run_post_tests was called: every
\* post test sees the same results, none of them a post-test record, and the
\* collected records enter results only when run_post_tests returns.
C25_PostTestsPublishedAsOneBatch ==
    /\ \A n \in PostEvents :
          /\ NamesOf(hook_log[n].seen) = NamesBeforePostTests
          /\ \A m \in PostEvents : hook_log[m].seen = hook_log[n].seen
    /\ (phase \in {"POST_HOOKS", "ABORTED"}) =>
          /\ NamesOf(results) = NamesBeforePostTests
          /\ \A n \in PostEvents : results = hook_log[n].seen

C25_Witness ==
    /\ phase = "ABORTED"
    /\ battery = 1
    /\ Len(post_tests) = 2
    /\ post_tests[1].as_test_case /\ post_tests[2].body = "raise"
    /\ Len(addition_test_results) = 1
    /\ NamesOf(results) = << <<"test", 1>> >>
    /\ hook_log[Len(hook_log)].ev = "raise"
    /\ hook_log[Len(hook_log)].seen = results

----------------------------------------------------------------------------
\* C26: is_building is false at first, true after start_building and false
\* after finish_building, also when the with-block raised; assigning
\* injection_config while is_building is true raises RuntimeError and leaves
\* the stored config as it was, and assigning it while is_building is false
\* succeeds and the getter then returns the new value.
C26_BuildingFlagGuardsConfig ==
    /\ (cfg_last.op = "none") => ~is_building
    /\ (cfg_last.op = "start_building") => is_building
    /\ (cfg_last.op = "finish_building") => ~is_building
    /\ (cfg_last.op = "set_injection_config") =>
          /\ is_building = cfg_last.building
          /\ IF cfg_last.building
             THEN cfg_last.raised = "RuntimeError" /\ injection_config = cfg_last.prev
             ELSE cfg_last.raised = "none" /\ injection_config = cfg_last.value

----------------------------------------------------------------------------
Running == {t \in DOMAIN timers : timers[t] = "running"}

\* C27: once Go Back has run, every Repeat timer the screen started is
\* cancelled; and once a refresh has observed "built", a timer that is still
\* running is the one upload_info_timer refers to (started by a later Upload,
\* to be cancelled by its own refresh), so that no timer is left that polls
\* for ever.
C27_PollingStopsAfterBuiltOrBack ==
    /\ gui_log.went_back => Running = {}
    /\ gui_log.built_seen => \A t \in Running : upload_info_timer = Some(t)

====
